---- MODULE Spec2Model ----
(***************************************************************************)
(* A model of the SQLite write side of ratchet:                            *)
(*   util.SQLiteInsertData / sqliteInsertObjects / buildSQLiteInsertSQL    *)
(*   processors.SQLiteWriter.ProcessData                                   *)
(*   processors.SQLReaderSQLiteWriter.ProcessData                          *)
(* Strings built by the code are modelled as sequences of tokens, string   *)
(* concatenation as \o.  Errors are sequences of strings, nil is <<>>.     *)
(***************************************************************************)
EXTENDS Integers, Sequences, FiniteSets, TLC

VARIABLES
    s,          \* the SQLiteWriter: TableName, OnDupKeyUpdate, PrimaryKeys, PreservedFields, BatchSize
    d,          \* the item ProcessData was called with
    pc,         \* position in ProcessData / SQLiteInsertData / the composite's loop
    arg,        \* SQLiteInsertData's parameters d and tableName for the current call
    objects,    \* SQLiteInsertData's local objects
    i,          \* SQLiteInsertData's loop index
    err,        \* SQLiteInsertData's err / return value
    tx,         \* state of the transaction handle tx: none, open, committed, rolledback
    pending,    \* rows written inside tx and not yet committed
    table,      \* rows the store holds (committed)
    log,        \* history: parse, build and store operations in the order issued
    calls,      \* history: the SQLiteInsertData calls made, with their arguments
    outcomes,   \* history: per finished SQLiteWriter.ProcessData, the item and how it ended
    outputChan, \* what has been sent on outputChan
    killChan,   \* what has been sent on killChan
    panicVal,   \* the value of the panic in flight
    results,    \* the composite: query result batches ForEachQueryData still has to hand over
    built       \* what the last direct call of buildSQLiteInsertSQL returned

vars == <<s, d, pc, arg, objects, i, err, tx, pending, table, log, calls,
          outcomes, outputChan, killChan, panicVal, results, built>>

\* ---------------------------------------------------------------- bounds

MaxRecords == 5
MaxBatchSize == 3
MaxResults == 2
MaxChunk == 2

\* ---------------------------------------------------------------- values

Nil == <<>>
NULL == "NULL"
NoPanic == [isError |-> FALSE, val |-> <<"none">>]
NotBuilt == [insertSQL |-> <<>>, vals |-> <<>>, err |-> Nil, cols |-> <<>>, valCols |-> <<>>]

ErrConfig == <<"primaryKeys required if preservedFields specified">>
ErrParse == <<"ObjectsFromJSON: not an object or an array of objects">>
ErrNewJSON == <<"NewJSON">>
ErrBegin == <<"begin">>
ErrTxDone == <<"sql: Transaction has already been committed or rolled back">>
ErrPrepare == <<"prepare">>
ErrExec == <<"exec">>
ErrLastInsertId == <<"LastInsertId">>
ErrRowsAffected == <<"RowsAffected">>
ErrUnsupportedArg == <<"sql: converting argument type: unsupported type">>
ErrMissingKey(col) == <<"Missing value for primary key: ", col>>

\* Column names in the byte order sort.Strings puts them in.
ColumnOrder == <<"createdAt", "id", "insert_data", "name", "table_name">>

Rank(c) == CHOOSE k \in 1..Len(ColumnOrder) : ColumnOrder[k] = c

Range(q) == {q[k] : k \in 1..Len(q)}

Min(a, b) == IF a < b THEN a ELSE b

\* ---------------------------------------------------------------- buildSQLiteInsertSQL

\* sort.Strings: ascending byte order, duplicates kept.
RECURSIVE InsertSorted(_, _)
InsertSorted(c, q) ==
    IF q = <<>> THEN <<c>>
    ELSE IF Rank(c) <= Rank(Head(q)) THEN <<c>> \o q
    ELSE <<Head(q)>> \o InsertSorted(c, Tail(q))

RECURSIVE SortStrings(_)
SortStrings(q) ==
    IF q = <<>> THEN <<>> ELSE InsertSorted(Head(q), SortStrings(Tail(q)))

\* util.sortedColumns: the keys of all objects, each once, sorted.
sortedColumns(objs) ==
    SelectSeq(ColumnOrder, LAMBDA c : \E k \in 1..Len(objs) : c \in DOMAIN objs[k])

\* The loop over preservedFields: colMap holds the columns of the objects and is
\* not updated when a preserved field is appended.
RECURSIVE AppendPreserved(_, _, _)
AppendPreserved(cols, colMap, pfs) ==
    IF pfs = <<>> THEN cols
    ELSE AppendPreserved(IF Head(pfs) \in colMap THEN cols ELSE Append(cols, Head(pfs)),
                         colMap, Tail(pfs))

BuildCols(objs, preservedFields) ==
    LET cols == sortedColumns(objs)
    IN SortStrings(AppendPreserved(cols, Range(cols), preservedFields))

\* strings.Join(cols, ",")
RECURSIVE JoinComma(_)
JoinComma(q) ==
    IF q = <<>> THEN <<>>
    ELSE IF Len(q) = 1 THEN <<q[1]>>
    ELSE <<q[1], ",">> \o JoinComma(Tail(q))

InsertHead(tableName, onDupKeyUpdate, cols) ==
    IF onDupKeyUpdate
    THEN <<"INSERT OR REPLACE INTO", tableName, "(">> \o JoinComma(cols) \o <<")", "VALUES">>
    ELSE <<"INSERT INTO", tableName, "(">> \o JoinComma(cols) \o <<")", "VALUES">>

\* A WHERE clause that tests the first primary key only.
WhereKeysFirstOnly(primaryKeys, k) ==
    IF k > Len(primaryKeys) \/ k > 1 THEN <<>> ELSE <<primaryKeys[k], "=", "?">>

\* "pk1 = ?AND pk2 = ?": the WHERE clause of one correlated SELECT.
RECURSIVE WhereKeys(_, _)
WhereKeys(primaryKeys, k) ==
    IF k > Len(primaryKeys) THEN <<>>
    ELSE (IF k > 1 THEN <<"AND">> ELSE <<>>) \o <<primaryKeys[k], "=", "?">>
         \o WhereKeys(primaryKeys, k + 1)

\* A test that forgets the mode.
IsPreservedColAnyMode(c, onDupKeyUpdate, preservedFields) ==
    c \in Range(preservedFields)

\* The test of line 159: replace mode and a preserved field.
IsPreservedCol(c, onDupKeyUpdate, preservedFields) ==
    onDupKeyUpdate /\ c \in Range(preservedFields)

\* The loop that builds qs, the "(?,?)" part, and valCols.
RECURSIVE RowGroup(_, _, _, _, _, _)
RowGroup(cols, k, tableName, onDupKeyUpdate, primaryKeys, preservedFields) ==
    IF k > Len(cols) THEN [qs |-> <<>>, valCols |-> <<>>]
    ELSE LET rest == RowGroup(cols, k + 1, tableName, onDupKeyUpdate, primaryKeys,
                              preservedFields)
             sep == IF k > 1 THEN <<",">> ELSE <<>>
         IN IF IsPreservedCol(cols[k], onDupKeyUpdate, preservedFields)
            THEN [qs |-> sep \o <<"(SELECT", cols[k], "FROM", tableName, "WHERE">>
                         \o WhereKeys(primaryKeys, 1) \o <<")">> \o rest.qs,
                  valCols |-> primaryKeys \o rest.valCols]
            ELSE [qs |-> sep \o <<"?">> \o rest.qs,
                  valCols |-> <<cols[k]>> \o rest.valCols]

\* The loop appending one qs per object, comma separated.
RECURSIVE RepeatRows(_, _)
RepeatRows(qs, n) ==
    IF n = 0 THEN <<>>
    ELSE IF n = 1 THEN qs
    ELSE RepeatRows(qs, n - 1) \o <<",">> \o qs

\* A binding loop that skips an absent value instead of binding nil.
RECURSIVE BindValsSkipsAbsent(_, _, _, _, _)
BindValsSkipsAbsent(objs, valCols, primaryKeys, p, vals) ==
    IF p >= Len(objs) * Len(valCols) THEN [vals |-> vals, err |-> Nil]
    ELSE LET obj == objs[(p \div Len(valCols)) + 1]
             col == valCols[(p % Len(valCols)) + 1]
         IN IF col \in DOMAIN obj
            THEN BindValsSkipsAbsent(objs, valCols, primaryKeys, p + 1, Append(vals, obj[col]))
            ELSE IF col \in Range(primaryKeys)
                 THEN [vals |-> vals, err |-> ErrMissingKey(col)]
                 ELSE BindValsSkipsAbsent(objs, valCols, primaryKeys, p + 1, vals)

\* The loop binding vals: position p counts the (object, valCol) pairs done so far.
\* A missing primary key returns at once, with the vals bound so far.
RECURSIVE BindVals(_, _, _, _, _)
BindVals(objs, valCols, primaryKeys, p, vals) ==
    IF p >= Len(objs) * Len(valCols) THEN [vals |-> vals, err |-> Nil]
    ELSE LET obj == objs[(p \div Len(valCols)) + 1]
             col == valCols[(p % Len(valCols)) + 1]
         IN IF col \in DOMAIN obj
            THEN BindVals(objs, valCols, primaryKeys, p + 1, Append(vals, obj[col]))
            ELSE IF col \in Range(primaryKeys)
                 THEN [vals |-> vals, err |-> ErrMissingKey(col)]
                 ELSE BindVals(objs, valCols, primaryKeys, p + 1, Append(vals, NULL))

buildSQLiteInsertSQL(objs, tableName, onDupKeyUpdate, primaryKeys, preservedFields) ==
    LET cols == BuildCols(objs, preservedFields)
        rg == RowGroup(cols, 1, tableName, onDupKeyUpdate, primaryKeys, preservedFields)
        qs == <<"(">> \o rg.qs \o <<")">>
        bound == BindVals(objs, rg.valCols, primaryKeys, 0, <<>>)
    IN [insertSQL |-> InsertHead(tableName, onDupKeyUpdate, cols) \o RepeatRows(qs, Len(objs)),
        vals |-> bound.vals,
        err |-> bound.err,
        cols |-> cols,
        valCols |-> rg.valCols]

\* ---------------------------------------------------------------- sqliteInsertObjects

\* A value that is itself an array or an object: Exec cannot convert it to an
\* argument and returns an error.
NestedValue == "payload"

\* What the driver does to one statement: nothing wrong, an error from Preparex,
\* Exec, LastInsertId or RowsAffected, or a panic inside Exec whose value is an
\* error or is not one.
Faults == {"none", "prepare", "exec", "lastid", "rowcnt", "panicErr", "panicStr"}

\* One call of sqliteInsertObjects on the slice objs = objects[lo:hi] under driver
\* fault f, on a transaction in state txState: the operations it issues, the rows
\* it writes into the transaction, the error it returns and the panic it raises.
\* Preparex on a transaction that is already committed or rolled back fails.
sqliteInsertObjects(txState, objs, lo, hi, tableName, onDupKeyUpdate, primaryKeys, preservedFields, f) ==
    LET b == buildSQLiteInsertSQL(objs, tableName, onDupKeyUpdate, primaryKeys,
                                  preservedFields)
        build == [op |-> "build", lo |-> lo, hi |-> hi, ok |-> b.err = Nil]
        prep(ok) == [op |-> "prepare", lo |-> lo, hi |-> hi, ok |-> ok,
                     sql |-> b.insertSQL]
        exec(ok) == [op |-> "exec", lo |-> lo, hi |-> hi, ok |-> ok, vals |-> b.vals]
        rows == [k \in 1..Len(objs) |-> [table |-> tableName, row |-> objs[k]]]
        out(ops, written, e, p) == [ops |-> ops, rows |-> written, err |-> e, panic |-> p]
    IN IF b.err # Nil THEN out(<<build>>, <<>>, b.err, NoPanic)
       ELSE IF txState # "open" THEN out(<<build, prep(FALSE)>>, <<>>, ErrTxDone, NoPanic)
       ELSE IF f = "prepare" THEN out(<<build, prep(FALSE)>>, <<>>, ErrPrepare, NoPanic)
       ELSE IF NestedValue \in Range(b.vals)
            THEN out(<<build, prep(TRUE), exec(FALSE)>>, <<>>, ErrUnsupportedArg, NoPanic)
       ELSE IF f = "exec" THEN out(<<build, prep(TRUE), exec(FALSE)>>, <<>>, ErrExec, NoPanic)
       ELSE IF f = "panicErr"
            THEN out(<<build, prep(TRUE), exec(FALSE)>>, <<>>, Nil,
                     [isError |-> TRUE, val |-> ErrExec])
       ELSE IF f = "panicStr"
            THEN out(<<build, prep(TRUE), exec(FALSE)>>, <<>>, Nil,
                     [isError |-> FALSE, val |-> <<"driver panic">>])
       ELSE IF f = "lastid" THEN out(<<build, prep(TRUE), exec(TRUE)>>, rows, ErrLastInsertId, NoPanic)
       ELSE IF f = "rowcnt" THEN out(<<build, prep(TRUE), exec(TRUE)>>, rows, ErrRowsAffected, NoPanic)
       ELSE out(<<build, prep(TRUE), exec(TRUE)>>, rows, Nil, NoPanic)

\* ---------------------------------------------------------------- data.JSON

R1 == [id |-> "1", name |-> "x"]
R2 == [name |-> "y"]
RecordPool == {R1, R2}

Plain(objs) == [kind |-> "plain", objs |-> objs]
Malformed == [kind |-> "malformed"]
NilJSON == [kind |-> "nil"]
NoPayload == [kind |-> "absent"]
Envelope(t, payload) == [kind |-> "envelope", table_name |-> t, insert_data |-> payload]

RECURSIVE SeqsUpTo(_, _)
SeqsUpTo(S, n) ==
    IF n = 0 THEN {<<>>}
    ELSE LET shorter == SeqsUpTo(S, n - 1)
         IN shorter \cup {Append(q, x) : q \in {r \in shorter : Len(r) = n - 1}, x \in S}

Batches == SeqsUpTo(RecordPool, MaxRecords)

Envelopes ==
    {Envelope("u", Plain(<<R1>>)), Envelope("u", Plain(<<R2, R1>>)),
     Envelope("", Plain(<<R1>>)), Envelope("u", NoPayload)}

Items == {Plain(b) : b \in Batches} \cup {Malformed} \cup Envelopes

\* data.ObjectsFromJSON: the objects of an object or of an array of objects; an
\* envelope is itself an object, with the fields it carries.
EnvelopeAsObject(e) ==
    IF e.table_name # "" /\ e.insert_data.kind # "absent"
    THEN [table_name |-> e.table_name, insert_data |-> NestedValue]
    ELSE IF e.table_name # "" THEN [table_name |-> e.table_name]
    ELSE IF e.insert_data.kind # "absent" THEN [insert_data |-> NestedValue]
    ELSE <<>>

ObjectsFromJSON(j) ==
    IF j.kind = "plain" THEN [objs |-> j.objs, err |-> Nil]
    ELSE IF j.kind = "envelope" THEN [objs |-> <<EnvelopeAsObject(j)>>, err |-> Nil]
    ELSE [objs |-> <<>>, err |-> ErrParse]

\* data.ParseJSON(d, &wd) into SQLWriterData{TableName, InsertData}.
ParseJSON(j) ==
    IF j.kind = "envelope"
    THEN [TableName |-> j.table_name, InsertData |-> j.insert_data, err |-> Nil]
    ELSE [TableName |-> "", InsertData |-> NoPayload,
          err |-> IF j.kind = "plain" /\ Len(j.objs) = 1 THEN Nil ELSE ErrParse]

\* util.KillPipelineIfErr: push the error when it is not nil, then return.
KillPipelineIfErr(e, ch) == IF e # Nil THEN Append(ch, e) ELSE ch

\* ---------------------------------------------------------------- state machine

Configs ==
    [TableName : {"t"},
     OnDupKeyUpdate : BOOLEAN,
     PrimaryKeys : {<<>>, <<"id">>},
     PreservedFields : {<<>>, <<"createdAt">>},
     BatchSize : 0..MaxBatchSize]

InitCommon ==
    /\ arg = [d |-> NilJSON, tableName |-> ""]
    /\ i = 0
    /\ err = Nil
    /\ tx = "none"
    /\ pending = <<>>
    /\ table = <<>>
    /\ log = <<>>
    /\ calls = <<>>
    /\ outcomes = <<>>
    /\ outputChan = <<>>
    /\ killChan = <<>>
    /\ panicVal = NoPanic
    /\ built = NotBuilt

\* A SQLiteWriter stage handed one item.
Init ==
    /\ InitCommon
    /\ s \in Configs
    /\ objects = <<>>
    /\ d \in Items
    /\ pc = "pd_start"
    /\ results = <<>>

\* SQLiteWriter.ProcessData, lines 251-256 and 262-263: parse the item as
\* SQLWriterData and pick the scenario; the normal scenario calls SQLiteInsertData
\* with the item itself and the configured table.
ProcessDataStart ==
    /\ pc = "pd_start"
    /\ LET wd == ParseJSON(d)
       IN IF wd.err = Nil /\ wd.TableName # "" /\ wd.InsertData.kind # "absent"
          THEN /\ pc' = "pd_newjson"
               /\ UNCHANGED <<arg, calls>>
          ELSE /\ pc' = "ins_check"
               /\ arg' = [d |-> d, tableName |-> s.TableName]
               /\ calls' = Append(calls, [d |-> d, tableName |-> s.TableName,
                                          onDupKeyUpdate |-> s.OnDupKeyUpdate,
                                          primaryKeys |-> s.PrimaryKeys,
                                          preservedFields |-> s.PreservedFields,
                                          batchSize |-> s.BatchSize,
                                          killed |-> Len(killChan)])
    /\ UNCHANGED <<s, d, objects, i, err, tx, pending, table, log, outcomes,
                   outputChan, killChan, panicVal, results, built>>

\* SQLiteWriter.ProcessData, lines 257-259, the SQLWriterData scenario: convert the
\* nested payload (NewJSON may fail, and then gives a nil JSON), hand the error to
\* KillPipelineIfErr, and call SQLiteInsertData with the envelope's table.
ProcessDataEnvelope ==
    /\ pc = "pd_newjson"
    /\ \E ok \in BOOLEAN :
         LET wd == ParseJSON(d)
             dd == IF ok THEN wd.InsertData ELSE NilJSON
             e == IF ok THEN Nil ELSE ErrNewJSON
         IN /\ killChan' = KillPipelineIfErr(e, killChan)
            /\ arg' = [d |-> dd, tableName |-> wd.TableName]
            /\ calls' = Append(calls, [d |-> dd, tableName |-> wd.TableName,
                                       onDupKeyUpdate |-> s.OnDupKeyUpdate,
                                       primaryKeys |-> s.PrimaryKeys,
                                       preservedFields |-> s.PreservedFields,
                                       batchSize |-> s.BatchSize,
                                       killed |-> Len(killChan')])
    /\ pc' = "ins_check"
    /\ UNCHANGED <<s, d, objects, i, err, tx, pending, table, log, outcomes,
                   outputChan, panicVal, results, built>>

\* A SQLiteInsertData that parses the payload before it checks the configuration.
InsertDataCheckParsesFirst ==
    /\ pc = "ins_check"
    /\ LET parsed == ObjectsFromJSON(arg.d)
       IN /\ log' = Append(log, [op |-> "parse", ok |-> parsed.err = Nil])
          /\ objects' = parsed.objs
          /\ IF parsed.err # Nil
             THEN err' = parsed.err /\ pc' = "ins_ret"
             ELSE IF Len(s.PreservedFields) > 0 /\ Len(s.PrimaryKeys) = 0
                  THEN err' = ErrConfig /\ pc' = "ins_ret"
                  ELSE err' = Nil /\ pc' = "ins_begin"
    /\ UNCHANGED <<s, d, arg, i, tx, pending, table, calls, outcomes, outputChan,
                   killChan, panicVal, results, built>>

\* SQLiteInsertData, lines 30-40: the configuration check, then ObjectsFromJSON.
InsertDataCheck ==
    /\ pc = "ins_check"
    /\ IF Len(s.PreservedFields) > 0 /\ Len(s.PrimaryKeys) = 0
       THEN /\ err' = ErrConfig
            /\ pc' = "ins_ret"
            /\ UNCHANGED <<objects, log>>
       ELSE LET parsed == ObjectsFromJSON(arg.d)
            IN /\ log' = Append(log, [op |-> "parse", ok |-> parsed.err = Nil])
               /\ objects' = parsed.objs
               /\ err' = parsed.err
               /\ pc' = IF parsed.err # Nil THEN "ins_ret" ELSE "ins_begin"
    /\ UNCHANGED <<s, d, arg, i, tx, pending, table, calls, outcomes, outputChan,
                   killChan, panicVal, results, built>>

\* SQLiteInsertData, line 41: db.MustBegin() opens the transaction or panics with
\* the error Begin gave.
InsertDataBegin ==
    /\ pc = "ins_begin"
    /\ \E ok \in BOOLEAN :
         IF ok
         THEN /\ tx' = "open"
              /\ pending' = <<>>
              /\ log' = Append(log, [op |-> "begin", ok |-> TRUE])
              /\ i' = 0
              /\ pc' = IF s.BatchSize > 0 THEN "ins_loop" ELSE "ins_commit0"
              /\ UNCHANGED panicVal
         ELSE /\ log' = Append(log, [op |-> "begin", ok |-> FALSE])
              /\ panicVal' = [isError |-> TRUE, val |-> ErrBegin]
              /\ pc' = "pd_recover"
              /\ UNCHANGED <<tx, pending, i>>
    /\ UNCHANGED <<s, d, arg, objects, err, table, calls, outcomes, outputChan,
                   killChan, results, built>>

\* SQLiteInsertData, lines 44-47: where the chunk starting at i ends.
MaxIndex(idx, batchSize, n) == Min(idx + batchSize, n)

\* A loop step that skips the record after each chunk.
NextIndexSkipsOne(idx, batchSize) == idx + batchSize + 1

\* SQLiteInsertData, line 43: the loop's step, i += batchSize.
NextIndex(idx, batchSize) == idx + batchSize

\* SQLiteInsertData, lines 43-54: one iteration of the loop, on objects[i:maxIndex].
InsertDataChunk ==
    /\ pc = "ins_loop"
    /\ i < Len(objects)
    /\ \E f \in Faults :
         LET maxIndex == MaxIndex(i, s.BatchSize, Len(objects))
             r == sqliteInsertObjects(tx, SubSeq(objects, i + 1, maxIndex), i, maxIndex,
                                      arg.tableName, s.OnDupKeyUpdate, s.PrimaryKeys,
                                      s.PreservedFields, f)
         IN /\ log' = log \o r.ops
            /\ pending' = pending \o r.rows
            /\ err' = r.err
            /\ panicVal' = r.panic
            /\ IF r.panic # NoPanic
               THEN pc' = "pd_recover" /\ UNCHANGED i
               ELSE IF r.err # Nil
                    THEN pc' = "ins_rollback" /\ UNCHANGED i
                    ELSE pc' = "ins_loop" /\ i' = NextIndex(i, s.BatchSize)
    /\ UNCHANGED <<s, d, arg, objects, tx, table, calls, outcomes, outputChan,
                   killChan, results, built>>

\* SQLiteInsertData, lines 51-52: tx.Rollback() and return the chunk's error.
InsertDataRollback ==
    /\ pc = "ins_rollback"
    /\ tx' = "rolledback"
    /\ pending' = <<>>
    /\ log' = Append(log, [op |-> "rollback", ok |-> TRUE])
    /\ pc' = "ins_ret"
    /\ UNCHANGED <<s, d, arg, objects, i, err, table, calls, outcomes, outputChan,
                   killChan, panicVal, results, built>>

\* SQLiteInsertData, lines 55-56: the loop is over; tx.Commit() and return nil.
InsertDataCommit ==
    /\ pc = "ins_loop"
    /\ i >= Len(objects)
    /\ tx' = "committed"
    /\ table' = table \o pending
    /\ pending' = <<>>
    /\ log' = Append(log, [op |-> "commit", ok |-> TRUE])
    /\ err' = Nil
    /\ pc' = "ins_ret"
    /\ UNCHANGED <<s, d, arg, objects, i, calls, outcomes, outputChan, killChan,
                   panicVal, results, built>>

\* SQLiteInsertData, line 58: batchSize is 0; tx.Commit() comes first.
InsertDataCommitFirst ==
    /\ pc = "ins_commit0"
    /\ tx' = "committed"
    /\ table' = table \o pending
    /\ pending' = <<>>
    /\ log' = Append(log, [op |-> "commit", ok |-> TRUE])
    /\ pc' = "ins_tail"
    /\ UNCHANGED <<s, d, arg, objects, i, err, calls, outcomes, outputChan,
                   killChan, panicVal, results, built>>

\* SQLiteInsertData, lines 59-60: batchSize is 0; return what sqliteInsertObjects
\* gives for all the objects, on the transaction committed at line 58.
InsertDataTail ==
    /\ pc = "ins_tail"
    /\ \E f \in Faults :
         LET r == sqliteInsertObjects(tx, objects, 0, Len(objects), arg.tableName,
                                      s.OnDupKeyUpdate, s.PrimaryKeys,
                                      s.PreservedFields, f)
         IN /\ log' = log \o r.ops
            /\ pending' = pending \o r.rows
            /\ err' = r.err
            /\ panicVal' = r.panic
            /\ pc' = IF r.panic # NoPanic THEN "pd_recover" ELSE "ins_ret"
    /\ UNCHANGED <<s, d, arg, objects, i, tx, table, calls, outcomes, outputChan,
                   killChan, results, built>>

\* A ProcessData that sends the item on.
ProcessDataForwardsItem(ch, item) == Append(ch, item)

\* What SQLiteWriter.ProcessData sends on outputChan: nothing.
ProcessDataForward(ch, item) == ch

\* SQLiteWriter.ProcessData, lines 260 and 264-266: SQLiteInsertData has returned;
\* hand its error to KillPipelineIfErr and return.
ProcessDataReturn ==
    /\ pc = "ins_ret"
    /\ killChan' = KillPipelineIfErr(err, killChan)
    /\ outputChan' = ProcessDataForward(outputChan, d)
    /\ outcomes' = Append(outcomes, [d |-> d, err |-> err, panic |-> NoPanic,
                                     killed |-> Len(killChan')])
    /\ pc' = "returned"
    /\ UNCHANGED <<s, d, arg, objects, i, err, tx, pending, table, log, calls,
                   panicVal, results, built>>

\* SQLiteWriter.ProcessData, lines 245-249: the deferred function recovers the
\* panic and asserts its value to be an error; a value that is not an error makes
\* the assertion panic, and that panic leaves ProcessData.
ProcessDataRecover ==
    /\ pc = "pd_recover"
    /\ IF panicVal.isError
       THEN /\ killChan' = KillPipelineIfErr(panicVal.val, killChan)
            /\ pc' = "returned"
       ELSE /\ pc' = "panicked"
            /\ UNCHANGED killChan
    /\ outcomes' = Append(outcomes, [d |-> d, err |-> err, panic |-> panicVal,
                                     killed |-> Len(killChan')])
    /\ UNCHANGED <<s, d, arg, objects, i, err, tx, pending, table, log, calls,
                   outputChan, panicVal, results, built>>

\* The steps of ProcessData on an item that is no SQLWriterData envelope.
PlainSteps ==
    \/ ProcessDataStart
    \/ InsertDataCheck
    \/ InsertDataBegin
    \/ InsertDataChunk
    \/ InsertDataRollback
    \/ InsertDataCommit
    \/ InsertDataCommitFirst
    \/ InsertDataTail
    \/ ProcessDataReturn
    \/ ProcessDataRecover

Next ==
    \/ ProcessDataEnvelope
    \/ PlainSteps

Spec == Init /\ [][Next]_vars

\* ---------------------------------------------------------------- the composite stage

CompositeItems == {Plain(<<R1>>), Plain(<<R2, R1>>)}

\* A SQLReaderSQLiteWriter stage whose query gave zero or more result batches.
InitComposite ==
    /\ InitCommon
    /\ s \in Configs
    /\ objects = <<>>
    /\ d = NilJSON
    /\ pc = "fe_loop"
    /\ results \in SeqsUpTo(CompositeItems, MaxResults)

\* SQLReader.ForEachQueryData: hand the next result batch to the callback, whose
\* first statement calls SQLiteWriter.ProcessData on it.
ForEachQueryData ==
    /\ pc = "fe_loop"
    /\ results # <<>>
    /\ d' = Head(results)
    /\ results' = Tail(results)
    /\ pc' = "pd_start"
    /\ UNCHANGED <<s, arg, objects, i, err, tx, pending, table, log, calls, outcomes,
                   outputChan, killChan, panicVal, built>>

\* SQLReaderSQLiteWriter.ProcessData, line 42: the writer's ProcessData has
\* returned; send the batch on outputChan.
CompositeForward ==
    /\ pc = "returned"
    /\ outputChan' = Append(outputChan, d)
    /\ pc' = "fe_loop"
    /\ UNCHANGED <<s, d, arg, objects, i, err, tx, pending, table, log, calls,
                   outcomes, killChan, panicVal, results, built>>

\* A result batch is an array of rows, which never parses as SQLWriterData: the
\* writer always takes its normal scenario.
NextComposite ==
    \/ PlainSteps
    \/ ForEachQueryData
    \/ CompositeForward

SpecComposite == InitComposite /\ [][NextComposite]_vars

\* ---------------------------------------------------------------- buildSQLiteInsertSQL alone

B1 == [id |-> "1", name |-> "x"]
B2 == [id |-> "2"]
B3 == [name |-> "y"]
BuildRecordPool == {B1, B2, B3}

BuildConfigs ==
    [TableName : {"t"},
     OnDupKeyUpdate : BOOLEAN,
     PrimaryKeys : {<<>>, <<"id">>, <<"id", "name">>},
     PreservedFields : {<<>>, <<"createdAt">>, <<"name">>, <<"createdAt", "createdAt">>},
     BatchSize : {0}]

\* buildSQLiteInsertSQL called on one chunk.
InitBuild ==
    /\ InitCommon
    /\ s \in BuildConfigs
    /\ d = NilJSON
    /\ results = <<>>
    /\ objects \in SeqsUpTo(BuildRecordPool, MaxChunk)
    /\ pc = "build"

Build ==
    /\ pc = "build"
    /\ built' = buildSQLiteInsertSQL(objects, s.TableName, s.OnDupKeyUpdate,
                                     s.PrimaryKeys, s.PreservedFields)
    /\ pc' = "built"
    /\ UNCHANGED <<s, d, arg, objects, i, err, tx, pending, table, log, calls,
                   outcomes, outputChan, killChan, panicVal, results>>

NextBuild == Build

SpecBuild == InitBuild /\ [][NextBuild]_vars

\* ---------------------------------------------------------------- concurrent invocations

\* The goroutines of one SQLiteWriter stage run with concurrency > 1. In this
\* specification d, pc, objects, i, err, tx, panicVal and log hold one value per
\* worker (they are the locals of that worker's ProcessData), pending is the
\* store's list of transactions, and tx[w] is the handle (the position in
\* pending) that db.MustBegin() gave worker w, 0 before it.
Workers == {"w1", "w2"}

ConcurrentConfigs ==
    [TableName : {"t"},
     OnDupKeyUpdate : {FALSE},
     PrimaryKeys : {<<>>},
     PreservedFields : {<<>>},
     BatchSize : 0..MaxBatchSize]

NoTx == 0

InitConcurrent ==
    /\ s \in ConcurrentConfigs
    /\ d \in [Workers -> CompositeItems]
    /\ pc = [w \in Workers |-> "pd_start"]
    /\ objects = [w \in Workers |-> <<>>]
    /\ i = [w \in Workers |-> 0]
    /\ err = [w \in Workers |-> Nil]
    /\ tx = [w \in Workers |-> NoTx]
    /\ panicVal = [w \in Workers |-> NoPanic]
    /\ log = [w \in Workers |-> <<>>]
    /\ pending = <<>>
    /\ table = <<>>
    /\ killChan = <<>>
    /\ arg = [d |-> NilJSON, tableName |-> ""]
    /\ calls = <<>>
    /\ outcomes = <<>>
    /\ outputChan = <<>>
    /\ results = <<>>
    /\ built = NotBuilt

\* A panic that left a goroutine ends the program: no goroutine runs after it.
Running == \A v \in Workers : pc[v] # "panicked"

\* A worker whose transaction variable is shared with the other workers: it holds
\* the transaction begun last.
TxOfLastBegun(w) == Len(pending)

\* SQLiteInsertData, line 41: tx is a local variable of the call, so the
\* transaction a worker's statements, commit and rollback go to is its own.
TxOf(w) == tx[w]

\* The operations ops as worker log entries on transaction handle h.
OnTx(h, ops) == [k \in 1..Len(ops) |-> [tx |-> h, e |-> ops[k]]]

\* tx.Commit() or tx.Rollback() on handle h: a transaction that is open is
\* finished (a rollback drops its rows); one that is finished stays as it is.
FinishTx(h, to) ==
    IF pending[h].state = "open"
    THEN [pending EXCEPT ![h].state = to,
                         ![h].rows = IF to = "committed" THEN @ ELSE <<>>]
    ELSE pending

\* The rows tx.Commit() on handle h makes visible in the store.
CommittedBy(h) == IF pending[h].state = "open" THEN pending[h].rows ELSE <<>>

\* ProcessData lines 251-256 and 262-263 with SQLiteInsertData lines 30-40: the
\* item is an array of rows (the normal scenario); check the configuration and
\* parse the item.
WorkerCall(w) ==
    /\ Running
    /\ pc[w] = "pd_start"
    /\ IF Len(s.PreservedFields) > 0 /\ Len(s.PrimaryKeys) = 0
       THEN /\ err' = [err EXCEPT ![w] = ErrConfig]
            /\ pc' = [pc EXCEPT ![w] = "ins_ret"]
            /\ UNCHANGED objects
       ELSE LET parsed == ObjectsFromJSON(d[w])
            IN /\ objects' = [objects EXCEPT ![w] = parsed.objs]
               /\ err' = [err EXCEPT ![w] = parsed.err]
               /\ pc' = [pc EXCEPT ![w] = IF parsed.err # Nil THEN "ins_ret"
                                          ELSE "ins_begin"]
    /\ UNCHANGED <<s, d, arg, i, tx, pending, table, log, calls, outcomes,
                   outputChan, killChan, panicVal, results, built>>

\* SQLiteInsertData, line 41: db.MustBegin() gives the worker a new transaction
\* of the shared store, or panics with the error Begin gave.
WorkerBegin(w) ==
    /\ Running
    /\ pc[w] = "ins_begin"
    /\ \E ok \in BOOLEAN :
         IF ok
         THEN /\ pending' = Append(pending, [owner |-> w, state |-> "open", rows |-> <<>>])
              /\ tx' = [tx EXCEPT ![w] = Len(pending) + 1]
              /\ log' = [log EXCEPT ![w] = Append(@, [tx |-> Len(pending) + 1,
                                                       e |-> [op |-> "begin", ok |-> TRUE]])]
              /\ i' = [i EXCEPT ![w] = 0]
              /\ pc' = [pc EXCEPT ![w] = IF s.BatchSize > 0 THEN "ins_loop"
                                         ELSE "ins_commit0"]
              /\ UNCHANGED panicVal
         ELSE /\ panicVal' = [panicVal EXCEPT ![w] = [isError |-> TRUE, val |-> ErrBegin]]
              /\ pc' = [pc EXCEPT ![w] = "pd_recover"]
              /\ UNCHANGED <<tx, pending, i, log>>
    /\ UNCHANGED <<s, d, arg, objects, err, table, calls, outcomes, outputChan,
                   killChan, results, built>>

\* SQLiteInsertData, lines 43-54: one iteration of the worker's loop.
WorkerChunk(w) ==
    /\ Running
    /\ pc[w] = "ins_loop"
    /\ i[w] < Len(objects[w])
    /\ \E f \in Faults :
         LET h == TxOf(w)
             maxIndex == MaxIndex(i[w], s.BatchSize, Len(objects[w]))
             r == sqliteInsertObjects(pending[h].state,
                                      SubSeq(objects[w], i[w] + 1, maxIndex), i[w],
                                      maxIndex, s.TableName, s.OnDupKeyUpdate,
                                      s.PrimaryKeys, s.PreservedFields, f)
         IN /\ log' = [log EXCEPT ![w] = @ \o OnTx(h, r.ops)]
            /\ pending' = [pending EXCEPT ![h].rows = @ \o r.rows]
            /\ err' = [err EXCEPT ![w] = r.err]
            /\ panicVal' = [panicVal EXCEPT ![w] = r.panic]
            /\ IF r.panic # NoPanic
               THEN pc' = [pc EXCEPT ![w] = "pd_recover"] /\ UNCHANGED i
               ELSE IF r.err # Nil
                    THEN pc' = [pc EXCEPT ![w] = "ins_rollback"] /\ UNCHANGED i
                    ELSE /\ pc' = pc
                         /\ i' = [i EXCEPT ![w] = NextIndex(@, s.BatchSize)]
    /\ UNCHANGED <<s, d, arg, objects, tx, table, calls, outcomes, outputChan,
                   killChan, results, built>>

\* SQLiteInsertData, lines 51-52: tx.Rollback() and return the chunk's error.
WorkerRollback(w) ==
    /\ Running
    /\ pc[w] = "ins_rollback"
    /\ pending' = FinishTx(TxOf(w), "rolledback")
    /\ log' = [log EXCEPT ![w] = Append(@, [tx |-> TxOf(w),
                                             e |-> [op |-> "rollback", ok |-> TRUE]])]
    /\ pc' = [pc EXCEPT ![w] = "ins_ret"]
    /\ UNCHANGED <<s, d, arg, objects, i, err, tx, table, calls, outcomes, outputChan,
                   killChan, panicVal, results, built>>

\* SQLiteInsertData, lines 55-56: the worker's loop is over; tx.Commit(), return nil.
WorkerCommit(w) ==
    /\ Running
    /\ pc[w] = "ins_loop"
    /\ i[w] >= Len(objects[w])
    /\ table' = table \o CommittedBy(TxOf(w))
    /\ pending' = FinishTx(TxOf(w), "committed")
    /\ log' = [log EXCEPT ![w] = Append(@, [tx |-> TxOf(w),
                                             e |-> [op |-> "commit", ok |-> TRUE]])]
    /\ err' = [err EXCEPT ![w] = Nil]
    /\ pc' = [pc EXCEPT ![w] = "ins_ret"]
    /\ UNCHANGED <<s, d, arg, objects, i, tx, calls, outcomes, outputChan, killChan,
                   panicVal, results, built>>

\* SQLiteInsertData, line 58: batchSize is 0; tx.Commit() comes first.
WorkerCommitFirst(w) ==
    /\ Running
    /\ pc[w] = "ins_commit0"
    /\ table' = table \o CommittedBy(TxOf(w))
    /\ pending' = FinishTx(TxOf(w), "committed")
    /\ log' = [log EXCEPT ![w] = Append(@, [tx |-> TxOf(w),
                                             e |-> [op |-> "commit", ok |-> TRUE]])]
    /\ pc' = [pc EXCEPT ![w] = "ins_tail"]
    /\ UNCHANGED <<s, d, arg, objects, i, err, tx, calls, outcomes, outputChan,
                   killChan, panicVal, results, built>>

\* SQLiteInsertData, lines 59-60: batchSize is 0; sqliteInsertObjects on all the
\* worker's objects, on the transaction committed at line 58.
WorkerTail(w) ==
    /\ Running
    /\ pc[w] = "ins_tail"
    /\ \E f \in Faults :
         LET h == TxOf(w)
             r == sqliteInsertObjects(pending[h].state, objects[w], 0, Len(objects[w]),
                                      s.TableName, s.OnDupKeyUpdate, s.PrimaryKeys,
                                      s.PreservedFields, f)
         IN /\ log' = [log EXCEPT ![w] = @ \o OnTx(h, r.ops)]
            /\ pending' = [pending EXCEPT ![h].rows = @ \o r.rows]
            /\ err' = [err EXCEPT ![w] = r.err]
            /\ panicVal' = [panicVal EXCEPT ![w] = r.panic]
            /\ pc' = [pc EXCEPT ![w] = IF r.panic # NoPanic THEN "pd_recover"
                                       ELSE "ins_ret"]
    /\ UNCHANGED <<s, d, arg, objects, i, tx, table, calls, outcomes, outputChan,
                   killChan, results, built>>

\* ProcessData, lines 264-266: SQLiteInsertData has returned to the worker; hand
\* its error to KillPipelineIfErr and return.
WorkerReturn(w) ==
    /\ Running
    /\ pc[w] = "ins_ret"
    /\ killChan' = KillPipelineIfErr(err[w], killChan)
    /\ pc' = [pc EXCEPT ![w] = "returned"]
    /\ UNCHANGED <<s, d, arg, objects, i, err, tx, pending, table, log, calls,
                   outcomes, outputChan, panicVal, results, built>>

\* ProcessData, lines 245-249: the worker's deferred function recovers the panic;
\* a value that is no error makes the assertion panic and the goroutine dies.
WorkerRecover(w) ==
    /\ Running
    /\ pc[w] = "pd_recover"
    /\ IF panicVal[w].isError
       THEN /\ killChan' = KillPipelineIfErr(panicVal[w].val, killChan)
            /\ pc' = [pc EXCEPT ![w] = "returned"]
       ELSE /\ pc' = [pc EXCEPT ![w] = "panicked"]
            /\ UNCHANGED killChan
    /\ UNCHANGED <<s, d, arg, objects, i, err, tx, pending, table, log, calls,
                   outcomes, outputChan, panicVal, results, built>>

NextConcurrent ==
    \/ \E w \in Workers : WorkerCall(w)
    \/ \E w \in Workers : WorkerBegin(w)
    \/ \E w \in Workers : WorkerChunk(w)
    \/ \E w \in Workers : WorkerRollback(w)
    \/ \E w \in Workers : WorkerCommit(w)
    \/ \E w \in Workers : WorkerCommitFirst(w)
    \/ \E w \in Workers : WorkerTail(w)
    \/ \E w \in Workers : WorkerReturn(w)
    \/ \E w \in Workers : WorkerRecover(w)

SpecConcurrent == InitConcurrent /\ [][NextConcurrent]_vars

\* ---------------------------------------------------------------- properties

\* The positions of the log holding operation op.
Positions(op) == {k \in 1..Len(log) : log[k].op = op}

StoreOps == {"begin", "prepare", "exec", "commit", "rollback"}

\* The store operations of the log, in order, without their arguments' detail.
StoreLog(l) == SelectSeq(l, LAMBDA e : e.op \in StoreOps)

\* SQLiteInsertData has returned to ProcessData (err holds what it returned).
InsertDataReturned == pc = "ins_ret"

\* SQLiteInsertData returned the error of a chunk (not the configuration or parse error).
ChunkFailed == InsertDataReturned /\ err \notin {Nil, ErrConfig, ErrParse}

\* n / b rounded up.
CeilDiv(n, b) == (n + b - 1) \div b

\* C1: a successful SQLiteInsertData commits its transaction exactly once, and the
\* commit comes strictly after the last chunk's statement: no prepare and no
\* execute is ever issued on the transaction after its commit (batchSize 0 included).
C1_CommitAfterLastChunk ==
    /\ \A c \in Positions("commit") :
         \A k \in (c + 1)..Len(log) : log[k].op \notin {"prepare", "exec"}
    /\ (InsertDataReturned /\ err = Nil) =>
         /\ Cardinality(Positions("commit")) = 1
         /\ tx = "committed"

\* C2: when a chunk fails, SQLiteInsertData rolls the transaction back, never
\* commits it, returns the error, attempts no later chunk, and the store holds
\* none of the rows of the batch (batchSize 0 included).
C2_ChunkFailureRollsBack ==
    ChunkFailed =>
        /\ tx = "rolledback"
        /\ Positions("commit") = {}
        /\ log[Len(log)].op = "rollback"
        /\ Cardinality({k \in Positions("build") : ~log[k].ok}) <= 1
        /\ Cardinality({k \in Positions("prepare") \cup Positions("exec") : ~log[k].ok}) <= 1
        /\ table = <<>>
        /\ pending = <<>>

\* SQLiteInsertData, lines 41-56 when the loop makes at most one iteration
\* (batchSize >= len(objects)): begin, the one chunk under driver fault f, then
\* rollback and the chunk's error, or commit and nil.
OneChunkRule(objs, tableName, onDupKeyUpdate, primaryKeys, preservedFields, f) ==
    LET begin == [op |-> "begin", ok |-> TRUE]
        r == sqliteInsertObjects("open", objs, 0, Len(objs), tableName, onDupKeyUpdate,
                                 primaryKeys, preservedFields, f)
    IN IF Len(objs) = 0
       THEN [ops |-> <<begin, [op |-> "commit", ok |-> TRUE]>>, err |-> Nil]
       ELSE IF r.err # Nil
            THEN [ops |-> <<begin>> \o r.ops \o <<[op |-> "rollback", ok |-> TRUE]>>,
                  err |-> r.err]
            ELSE [ops |-> <<begin>> \o r.ops \o <<[op |-> "commit", ok |-> TRUE]>>,
                  err |-> Nil]

\* The log and the returned error are those of the one-chunk case under some
\* driver fault that raises no panic.
RunsAsOneChunk ==
    \E f \in Faults \ {"panicErr", "panicStr"} :
        LET r == OneChunkRule(objects, arg.tableName, s.OnDupKeyUpdate, s.PrimaryKeys,
                              s.PreservedFields, f)
        IN /\ StoreLog(log) = StoreLog(r.ops)
           /\ err = r.err

\* C3: with batchSize 0 SQLiteInsertData issues the same store operations and
\* returns the same error as the one-chunk case of the chunked rule.
C3_UnboundedIsOneChunk ==
    (InsertDataReturned /\ s.BatchSize = 0 /\ Positions("begin") # {}) => RunsAsOneChunk

\* The entries of the log holding operation op, in order.
Entries(op) == SelectSeq(log, LAMBDA e : e.op = op)

\* SQLiteInsertData returned nil from the chunked branch (batchSize > 0).
ChunkedSuccess == InsertDataReturned /\ s.BatchSize > 0 /\ err = Nil

\* C4: with batchSize b > 0 and no failure, SQLiteInsertData begins one
\* transaction and executes ceil(n/b) statements inside it, one after another, on
\* the consecutive slices [0,b), [b,2b), ... of the batch: every chunk but the last
\* has b records, the last has n - b*(ceil(n/b)-1), every record is in exactly one
\* chunk, and the store ends up with the batch's rows in input order.
C4_ChunksAreConsecutiveSlices ==
    ChunkedSuccess =>
        LET n == Len(objects)
            b == s.BatchSize
            m == CeilDiv(n, b)
            ex == Entries("exec")
            first == CHOOSE k \in Positions("begin") : TRUE
        IN /\ Cardinality(Positions("begin")) = 1
           /\ Len(ex) = m
           /\ Len(Entries("prepare")) = m
           /\ Len(log) = first + 3 * m + 1
           /\ log[Len(log)].op = "commit"
           /\ \A k \in 1..m :
                /\ log[first + 3 * (k - 1) + 1].op = "build"
                /\ log[first + 3 * (k - 1) + 2].op = "prepare"
                /\ log[first + 3 * (k - 1) + 3] = ex[k]
                /\ log[first + 3 * (k - 1) + 2].lo = ex[k].lo
                /\ ex[k].ok
                /\ ex[k].lo = (k - 1) * b
                /\ ex[k].hi - ex[k].lo = (IF k < m THEN b ELSE n - b * (m - 1))
                /\ ex[k].vals = buildSQLiteInsertSQL(SubSeq(objects, ex[k].lo + 1, ex[k].hi),
                                    arg.tableName, s.OnDupKeyUpdate, s.PrimaryKeys,
                                    s.PreservedFields).vals
           /\ \A idx \in 0..(n - 1) :
                Cardinality({k \in 1..m : ex[k].lo <= idx /\ idx < ex[k].hi}) = 1
           /\ table = [k \in 1..n |-> [table |-> arg.tableName, row |-> objects[k]]]

\* C4's case: 5 records in chunks of 2, written as 3 statements.
C4_Witness ==
    /\ ChunkedSuccess
    /\ s.BatchSize = 2
    /\ Len(objects) = 5
    /\ Len(Entries("exec")) = 3

ConfigInvalid == Len(s.PreservedFields) > 0 /\ Len(s.PrimaryKeys) = 0

\* C5: with preservedFields set and primaryKeys empty, SQLiteInsertData returns
\* the configuration error before anything else: no payload is parsed, no
\* transaction is begun, no statement is compiled, prepared or executed.
C5_ConfigErrorBeforeStore ==
    ConfigInvalid =>
        /\ log = <<>>
        /\ tx = "none"
        /\ objects = <<>>
        /\ table = <<>>
        /\ pc \in {"ins_ret", "returned"} => err = ErrConfig

\* C5's case: the call was made on a batch with records and returned the error.
C5_Witness ==
    /\ ConfigInvalid
    /\ InsertDataReturned
    /\ err = ErrConfig
    /\ arg.d.kind = "plain"
    /\ Len(arg.d.objs) > 0

\* Some object lacks a value for some column of primaryKeys.
MissingPrimaryKey(objs, primaryKeys) ==
    \E k \in 1..Len(objs) : \E pk \in Range(primaryKeys) : pk \notin DOMAIN objs[k]

\* C6: in replace-preserving mode, a batch with a row that lacks a primary-key
\* value makes SQLiteInsertData return the missing-key error with no statement
\* prepared or executed in the whole call, the transaction rolled back and not
\* committed, and no row written (every batchSize, every place of the row).
C6_MissingKeyNothingExecuted ==
    (/\ InsertDataReturned
     /\ s.OnDupKeyUpdate
     /\ Len(s.PreservedFields) > 0
     /\ Positions("begin") # {}
     /\ MissingPrimaryKey(objects, s.PrimaryKeys)) =>
        /\ err # Nil
        /\ err[1] = "Missing value for primary key: "
        /\ Positions("prepare") \cup Positions("exec") = {}
        /\ tx = "rolledback"
        /\ Positions("commit") = {}
        /\ table = <<>>

\* C7: buildSQLiteInsertSQL fails with the missing-key error whenever a record
\* of the chunk lacks a value for a column of primaryKeys, in every mode, and then
\* returns no partial output: the SQL text and the argument list are empty.
C7_MissingKeyAbortsBuild ==
    pc = "built" =>
        /\ MissingPrimaryKey(objects, s.PrimaryKeys) =>
             (built.err # Nil /\ built.err[1] = "Missing value for primary key: ")
        /\ built.err # Nil => (built.insertSQL = <<>> /\ built.vals = <<>>)

\* SQLiteWriter.ProcessData returned after a write that succeeded.
WriteSucceeded == pc = "returned" /\ err = Nil /\ panicVal = NoPanic

\* C8 as stated: after a successful write ProcessData has sent the item once on
\* outputChan and nothing on killChan.
C8_PassThrough ==
    WriteSucceeded => (outputChan = <<d>> /\ killChan = <<>>)

\* C8 as amended: after a successful write SQLiteWriter.ProcessData has sent
\* nothing on outputChan (the stage is a sink) and nothing on killChan.
C8_WriterIsSink ==
    WriteSucceeded => (outputChan = <<>> /\ killChan = <<>>)

\* C8's case: a write that put rows into the store.
C8_Witness ==
    /\ WriteSucceeded
    /\ table # <<>>
    /\ tx = "committed"

\* SQLiteWriter.ProcessData returned for an item that failed somewhere.
ItemFailed ==
    pc = "returned" /\ (err # Nil \/ panicVal # NoPanic \/ killChan # <<>>)

\* C9: for an item on which ProcessData fails, exactly one error is pushed onto
\* killChan, and nothing is done for the item after the push: no SQLiteInsertData
\* call is made once an error has been pushed.
C9_ExactlyOneKill ==
    ItemFailed =>
        /\ Len(killChan) = 1
        /\ \A k \in 1..Len(calls) : calls[k].killed = 0

\* An outcome of ProcessData that is a successful write.
Written(o) == o.err = Nil /\ o.panic = NoPanic

\* C10: the composite sends a result batch on outputChan only if its write
\* succeeded, and a failed batch stops the remaining batches of the item.
C10_ForwardOnlyWritten ==
    /\ \A k \in 1..Len(outputChan) : Written(outcomes[k])
    /\ \A k \in 1..(Len(outcomes) - 1) : Written(outcomes[k])

\* C11: a panic raised while SQLiteWriter.ProcessData runs, whatever the type of
\* its value, is recovered and turned into one error on killChan; no panic leaves
\* ProcessData.
C11_EveryPanicRecovered ==
    /\ pc # "panicked"
    /\ (pc = "returned" /\ panicVal # NoPanic) =>
         (killChan # <<>> /\ killChan[Len(killChan)] = panicVal.val)

\* The keys of the records of a chunk.
Keys(objs) == UNION {DOMAIN objs[k] : k \in 1..Len(objs)}

\* The names of a set, each once, in byte order.
SortedSet(S) == SelectSeq(ColumnOrder, LAMBDA c : c \in S)

Reverse(q) == [k \in 1..Len(q) |-> q[Len(q) + 1 - k]]

\* C12: the column list buildSQLiteInsertSQL emits is sorted(keys of the records
\* union preservedFields): in byte order, no name repeated, and the same for every
\* order of the records.
C12_ColumnsAreSortedUnion ==
    pc = "built" =>
        /\ built.cols = SortedSet(Keys(objects) \cup Range(s.PreservedFields))
        /\ built.cols = BuildCols(Reverse(objects), s.PreservedFields)

\* The concatenation of the sequences f(1), ..., f(n), with sep between them.
RECURSIVE Concat(_, _, _)
Concat(f(_), n, sep) ==
    IF n = 0 THEN <<>>
    ELSE IF n = 1 THEN f(1)
    ELSE Concat(f, n - 1, sep) \o sep \o f(n)

\* The value a record binds for a column: its own, or NULL when it has none.
ValueOf(rec, c) == IF c \in DOMAIN rec THEN rec[c] ELSE NULL

\* A correlated SELECT of column c with one "pk = ?" per primary key, in order.
CorrelatedSelect(c, tableName, primaryKeys) ==
    LET cond(k) == (IF k > 1 THEN <<"AND">> ELSE <<>>) \o <<primaryKeys[k], "=", "?">>
    IN <<"(SELECT", c, "FROM", tableName, "WHERE">>
       \o Concat(cond, Len(primaryKeys), <<>>) \o <<")">>

\* The statement and the arguments for objs over columns cols, where the columns
\* of the set preserved are correlated SELECTs bound to the record's primary-key
\* values and every other column is a plain placeholder bound to its own value.
ExpectedHead(tableName, replace, cols) ==
    LET name(k) == <<cols[k]>>
    IN <<IF replace THEN "INSERT OR REPLACE INTO" ELSE "INSERT INTO", tableName, "(">>
       \o Concat(name, Len(cols), <<",">>) \o <<")", "VALUES">>

ExpectedRows(objs, cols, tableName, primaryKeys, preserved) ==
    LET expr(k) == IF cols[k] \in preserved
                   THEN CorrelatedSelect(cols[k], tableName, primaryKeys)
                   ELSE <<"?">>
        row(r) == <<"(">> \o Concat(expr, Len(cols), <<",">>) \o <<")">>
    IN Concat(row, Len(objs), <<",">>)

ExpectedArgs(objs, cols, primaryKeys, preserved) ==
    LET ofRecord(r) ==
            LET ofCol(k) == IF cols[k] \in preserved
                            THEN [j \in 1..Len(primaryKeys) |-> objs[r][primaryKeys[j]]]
                            ELSE <<ValueOf(objs[r], cols[k])>>
            IN Concat(ofCol, Len(cols), <<>>)
    IN Concat(ofRecord, Len(objs), <<>>)

\* buildSQLiteInsertSQL was called in replace-preserving mode and succeeded.
BuiltPreserving ==
    pc = "built" /\ s.OnDupKeyUpdate /\ Len(s.PreservedFields) > 0 /\ built.err = Nil

\* C13: in replace-preserving mode every column that is in preservedFields is
\* emitted as a correlated SELECT with |primaryKeys| placeholders, in primaryKeys
\* order, bound to the record's primary-key values; every other column is one
\* plain placeholder bound to the record's value for it.
C13_PreservedColumnsAreSelects ==
    BuiltPreserving =>
        /\ built.insertSQL =
             ExpectedHead(s.TableName, TRUE, built.cols)
             \o ExpectedRows(objects, built.cols, s.TableName, s.PrimaryKeys,
                             Range(s.PreservedFields))
        /\ built.vals = ExpectedArgs(objects, built.cols, s.PrimaryKeys,
                                     Range(s.PreservedFields))

\* C13's case: primaryKeys [id], preservedFields [createdAt], one row {id:1,name:x}.
C13_Witness ==
    /\ BuiltPreserving
    /\ objects = <<B1>>
    /\ s.PrimaryKeys = <<"id">>
    /\ s.PreservedFields = <<"createdAt">>
    /\ built.cols = <<"createdAt", "id", "name">>
    /\ built.vals = <<"1", "1", "x">>

\* How many elements of q are x.
CountOf(q, x) == Cardinality({k \in 1..Len(q) : q[k] = x})

\* The columns buildSQLiteInsertSQL treats as preserved: those of preservedFields,
\* in replace mode only.
PreservedIn(cfg) == IF cfg.OnDupKeyUpdate THEN Range(cfg.PreservedFields) ELSE {}

\* The arguments one record takes: 1 per normal column, |primaryKeys| per preserved one.
RECURSIVE ArgsPerRecord(_, _, _)
ArgsPerRecord(cols, primaryKeys, preserved) ==
    IF cols = <<>> THEN 0
    ELSE (IF Head(cols) \in preserved THEN Len(primaryKeys) ELSE 1)
         + ArgsPerRecord(Tail(cols), primaryKeys, preserved)

\* C14: a successful buildSQLiteInsertSQL gives one row group per record and the
\* arguments of the records in batch order, each record's in column order, an
\* absent value that is no primary key bound as NULL; so there are
\* (#records) x (sum over the columns of 1, or |primaryKeys| if preserved)
\* arguments, as many as the statement has placeholders.
C14_ArgumentsMatchPlaceholders ==
    (pc = "built" /\ built.err = Nil) =>
        /\ built.insertSQL =
             ExpectedHead(s.TableName, s.OnDupKeyUpdate, built.cols)
             \o ExpectedRows(objects, built.cols, s.TableName, s.PrimaryKeys, PreservedIn(s))
        /\ built.vals = ExpectedArgs(objects, built.cols, s.PrimaryKeys, PreservedIn(s))
        /\ Len(built.vals) =
             Len(objects) * ArgsPerRecord(built.cols, s.PrimaryKeys, PreservedIn(s))
        /\ Len(built.vals) = CountOf(built.insertSQL, "?")

\* C14's case: insert-only, two rows, the second without a value for a column.
C14_Witness ==
    /\ pc = "built"
    /\ ~s.OnDupKeyUpdate
    /\ objects = <<B1, B2>>
    /\ built.err = Nil
    /\ built.vals = <<"1", "x", "2", NULL>>

\* C15: in insert-only mode buildSQLiteInsertSQL never emits a correlated
\* subquery, whatever preservedFields and primaryKeys are: the statement is the
\* plain INSERT and every value position of every row is one plain placeholder
\* that takes exactly one argument.
C15_InsertOnlyHasNoSubquery ==
    (pc = "built" /\ ~s.OnDupKeyUpdate) =>
        /\ built.insertSQL[1] = "INSERT INTO"
        /\ \A k \in 1..Len(built.insertSQL) :
             built.insertSQL[k] \notin {"(SELECT", "WHERE", "INSERT OR REPLACE INTO"}
        /\ built.insertSQL =
             ExpectedHead(s.TableName, FALSE, built.cols)
             \o ExpectedRows(objects, built.cols, s.TableName, s.PrimaryKeys, {})
        /\ built.valCols = built.cols
        /\ built.err = Nil => Len(built.vals) = Len(objects) * Len(built.cols)

\* C15's case: insert-only with a preserved field and a primary key configured.
C15_Witness ==
    /\ pc = "built"
    /\ ~s.OnDupKeyUpdate
    /\ s.PreservedFields = <<"createdAt">>
    /\ s.PrimaryKeys = <<"id">>
    /\ objects = <<B1, B2>>
    /\ built.cols = <<"createdAt", "id", "name">>
    /\ built.vals = <<NULL, "1", "x", NULL, "2", NULL>>

\* The item is a routed envelope without its table name or without its payload.
IncompleteEnvelope(j) ==
    j.kind = "envelope" /\ (j.table_name = "" \/ j.insert_data.kind = "absent")

\* C16: a routed envelope that lacks its payload or its table name fails with a
\* parse error, one error on killChan, and nothing is written: it is never
\* inserted as an ordinary record into the configured table.
C16_IncompleteEnvelopeIsParseError ==
    IncompleteEnvelope(d) =>
        /\ Positions("build") \cup Positions("prepare") \cup Positions("exec") = {}
        /\ table = <<>>
        /\ (pc = "returned" /\ ~ConfigInvalid /\ Positions("begin") = {}) =>
               killChan = <<ErrParse>>

\* The item is a routed envelope with both its table name and its payload.
CompleteEnvelope(j) ==
    j.kind = "envelope" /\ j.table_name # "" /\ j.insert_data.kind # "absent"

\* ProcessData has made its SQLiteInsertData call for the item.
CallMade == pc \notin {"pd_start", "pd_newjson"}

\* The one call the item is to get: table and batch by the kind of the item.
CallIsFor(c, tableName, batch) ==
    /\ c.tableName = tableName
    /\ c.d = batch
    /\ c.onDupKeyUpdate = s.OnDupKeyUpdate
    /\ c.primaryKeys = s.PrimaryKeys
    /\ c.preservedFields = s.PreservedFields
    /\ c.batchSize = s.BatchSize

\* C17 (state part): once the call is made there is exactly one call, for a
\* complete envelope against the envelope's table with the nested payload, for a
\* plain item against the configured TableName with the item itself, the
\* configured policy passed as it is.
C17_OneCallPerItem ==
    /\ Len(calls) <= 1
    /\ (CallMade /\ CompleteEnvelope(d)) =>
           (Len(calls) = 1 /\ CallIsFor(calls[1], d.table_name, d.insert_data))
    /\ (CallMade /\ d.kind # "envelope") =>
           (Len(calls) = 1 /\ CallIsFor(calls[1], s.TableName, d))

\* C17: ProcessData resolves the target table per item, makes exactly one
\* SQLiteInsertData call with the table and batch of the item's kind and the
\* configured policy unchanged, and never modifies the writer's configuration.
C17_TargetResolvedPerItem ==
    []C17_OneCallPerItem /\ [][s' = s]_vars

\* How many times the transaction was finished, by commit or by rollback.
Finalizations == Cardinality(Positions("commit") \cup Positions("rollback"))

\* C19: when SQLiteInsertData returns after having begun a transaction, the
\* transaction has been finished exactly once and is not open; a nil return means
\* it was committed and a non-nil return means it was rolled back, for every
\* batchSize >= 0 and every failure point.
C19_FinalizedExactlyOnce ==
    (InsertDataReturned /\ Positions("begin") # {}) =>
        /\ Finalizations = 1
        /\ tx # "open"
        /\ (err = Nil) => tx = "committed"
        /\ (err # Nil) => tx = "rolledback"

\* SQLiteInsertData has returned from a call on a batch of zero records.
EmptyBatchReturned ==
    InsertDataReturned /\ Positions("begin") # {} /\ objects = <<>>

\* C20: for a batch of zero records SQLiteInsertData compiles, prepares and
\* executes nothing, for every batchSize >= 0: it begins the transaction, commits
\* it and returns nil, and no INSERT text is sent to the store.
C20_EmptyBatchIssuesNothing ==
    EmptyBatchReturned =>
        /\ Positions("build") \cup Positions("prepare") \cup Positions("exec") = {}
        /\ [k \in 1..Len(StoreLog(log)) |-> StoreLog(log)[k].op] = <<"begin", "commit">>
        /\ err = Nil

\* The rows a call of SQLiteInsertData on worker w's records leaves in its
\* transaction.
RowsOf(w) == [k \in 1..Len(objects[w]) |-> [table |-> s.TableName, row |-> objects[w][k]]]

\* Every store operation a worker has issued went to a transaction it began.
OwnTransactionOnly ==
    \A w \in Workers : \A k \in 1..Len(log[w]) :
        /\ log[w][k].tx \in 1..Len(pending)
        /\ pending[log[w][k].tx].owner = w
        /\ log[w][k].tx = tx[w]

\* A worker whose SQLiteInsertData returned after begin: its transaction ended
\* as its own chunks decide. With batchSize > 0, a nil return leaves it committed
\* with all the worker's rows and an error leaves it rolled back with none; with
\* batchSize = 0 it is committed empty.
OutcomeIsOwn ==
    \A w \in Workers :
        (pc[w] \in {"ins_ret", "returned"} /\ panicVal[w] = NoPanic /\ tx[w] # NoTx) =>
            pending[tx[w]] =
                [owner |-> w,
                 state |-> IF s.BatchSize = 0 \/ err[w] = Nil THEN "committed"
                           ELSE "rolledback",
                 rows |-> IF s.BatchSize > 0 /\ err[w] = Nil THEN RowsOf(w) ELSE <<>>]

\* A step changes a transaction only when it is a step of the worker that began it.
OnlyOwnerChanges ==
    \A h \in 1..Len(pending) :
        pending'[h] # pending[h] => log'[pending[h].owner] # log[pending[h].owner]

\* C18: with several ProcessData invocations running concurrently on one writer,
\* each begins its own transaction and prepares, executes, commits and rolls back
\* only on it; in every interleaving no step of one invocation changes another's
\* transaction, and an invocation's transaction ends committed or rolled back as
\* its own chunks decide.
C18_TransactionsArePrivate ==
    [](OwnTransactionOnly /\ OutcomeIsOwn) /\ [][OnlyOwnerChanges]_vars

\* One worker's chunk failed and its transaction is rolled back while another
\* worker's transaction is open with rows written.
C18_Witness ==
    \E w, v \in Workers :
        /\ w # v /\ tx[w] # NoTx /\ tx[v] # NoTx
        /\ pending[tx[w]].state = "rolledback"
        /\ pending[tx[v]].state = "open"
        /\ pending[tx[v]].rows # <<>>

====
